---------------------------- MODULE Spec2Model ----------------------------
(***************************************************************************)
(* Fava's options (fava/core/fava_options.py): the module-level tables and *)
(* parse_options, the fold of a list of Custom entries into the pair       *)
(* (options, errors).                                                      *)
(*                                                                         *)
(* Python values are records [t |-> type name, v |-> payload].  A str that *)
(* the code takes apart (lower, int, strip, split, re.compile) is the      *)
(* sequence of its characters; an option key, which the code only compares *)
(* and looks up, is a TLA+ string.  A list is an object on the heap: the   *)
(* value held in a dict is a reference to it, so that copy.deepcopy, an    *)
(* in-place append and a rebinding of the key are three different things.  *)
(***************************************************************************)
EXTENDS Integers, Sequences, FiniteSets, TLC

VARIABLES DEFAULTS, heap, pc, options, errors, custom_entries, raised, profile

vars == <<DEFAULTS, heap, pc, options, errors, custom_entries, raised, profile>>

(***************************************************************************)
(* Python values                                                           *)
(***************************************************************************)
PyNone == [t |-> "None", v |-> <<>>]

PyBool(b) == [t |-> "bool", v |-> b]

PyInt(n) == [t |-> "int", v |-> n]

PyStr(s) == [t |-> "str", v |-> s]

PyList(l) == [t |-> "list", v |-> l]

PyRef(a) == [t |-> "ref", v |-> a]

(***************************************************************************)
(* The module-level tables                                                 *)
(***************************************************************************)
ConversionCurrencies ==
  <<
    <<"A","E","D">>, <<"A","F","N">>, <<"A","L","L">>, <<"A","M","D">>, <<"A","N","G">>,
    <<"A","O","A">>, <<"A","R","S">>, <<"A","U","D">>, <<"A","W","G">>, <<"A","Z","N">>,
    <<"B","A","M">>, <<"B","B","D">>, <<"B","D","T">>, <<"B","G","N">>, <<"B","H","D">>,
    <<"B","I","F">>, <<"B","M","D">>, <<"B","N","D">>, <<"B","O","B">>, <<"B","O","V">>,
    <<"B","R","L">>, <<"B","S","D">>, <<"B","T","N">>, <<"B","W","P">>, <<"B","Y","N">>,
    <<"B","Z","D">>, <<"C","A","D">>, <<"C","D","F">>, <<"C","H","E">>, <<"C","H","F">>,
    <<"C","H","W">>, <<"C","L","F">>, <<"C","L","P">>, <<"C","N","Y">>, <<"C","O","P">>,
    <<"C","O","U">>, <<"C","R","C">>, <<"C","U","C">>, <<"C","U","P">>, <<"C","V","E">>,
    <<"C","Z","K">>, <<"D","J","F">>, <<"D","K","K">>, <<"D","O","P">>, <<"D","Z","D">>,
    <<"E","G","P">>, <<"E","R","N">>, <<"E","T","B">>, <<"E","U","R">>, <<"F","J","D">>,
    <<"F","K","P">>, <<"G","B","P">>, <<"G","E","L">>, <<"G","H","S">>, <<"G","I","P">>,
    <<"G","M","D">>, <<"G","N","F">>, <<"G","T","Q">>, <<"G","Y","D">>, <<"H","K","D">>,
    <<"H","N","L">>, <<"H","R","K">>, <<"H","T","G">>, <<"H","U","F">>, <<"I","D","R">>,
    <<"I","L","S">>, <<"I","N","R">>, <<"I","Q","D">>, <<"I","R","R">>, <<"I","S","K">>,
    <<"J","M","D">>, <<"J","O","D">>, <<"J","P","Y">>, <<"K","E","S">>, <<"K","G","S">>,
    <<"K","H","R">>, <<"K","M","F">>, <<"K","P","W">>, <<"K","R","W">>, <<"K","W","D">>,
    <<"K","Y","D">>, <<"K","Z","T">>, <<"L","A","K">>, <<"L","B","P">>, <<"L","K","R">>,
    <<"L","R","D">>, <<"L","S","L">>, <<"L","Y","D">>, <<"M","A","D">>, <<"M","D","L">>,
    <<"M","G","A">>, <<"M","K","D">>, <<"M","M","K">>, <<"M","N","T">>, <<"M","O","P">>,
    <<"M","R","U">>, <<"M","U","R">>, <<"M","V","R">>, <<"M","W","K">>, <<"M","X","N">>,
    <<"M","X","V">>, <<"M","Y","R">>, <<"M","Z","N">>, <<"N","A","D">>, <<"N","G","N">>,
    <<"N","I","O">>, <<"N","O","K">>, <<"N","P","R">>, <<"N","Z","D">>, <<"O","M","R">>,
    <<"P","A","B">>, <<"P","E","N">>, <<"P","G","K">>, <<"P","H","P">>, <<"P","K","R">>,
    <<"P","L","N">>, <<"P","Y","G">>, <<"Q","A","R">>, <<"R","O","N">>, <<"R","S","D">>,
    <<"R","U","B">>, <<"R","W","F">>, <<"S","A","R">>, <<"S","B","D">>, <<"S","C","R">>,
    <<"S","D","G">>, <<"S","E","K">>, <<"S","G","D">>, <<"S","H","P">>, <<"S","L","L">>,
    <<"S","O","S">>, <<"S","R","D">>, <<"S","S","P">>, <<"S","T","N">>, <<"S","V","C">>,
    <<"S","Y","P">>, <<"S","Z","L">>, <<"T","H","B">>, <<"T","J","S">>, <<"T","M","T">>,
    <<"T","N","D">>, <<"T","O","P">>, <<"T","R","Y">>, <<"T","T","D">>, <<"T","W","D">>,
    <<"T","Z","S">>, <<"U","A","H">>, <<"U","G","X">>, <<"U","S","D">>, <<"U","S","N">>,
    <<"U","Y","I">>, <<"U","Y","U">>, <<"U","Y","W">>, <<"U","Z","S">>, <<"V","E","S">>,
    <<"V","N","D">>, <<"V","U","V">>, <<"W","S","T">>, <<"X","A","F">>, <<"X","A","G">>,
    <<"X","A","U">>, <<"X","B","A">>, <<"X","B","B">>, <<"X","B","C">>, <<"X","B","D">>,
    <<"X","C","D">>, <<"X","D","R">>, <<"X","O","F">>, <<"X","P","D">>, <<"X","P","F">>,
    <<"X","P","T">>, <<"X","S","U">>, <<"X","T","S">>, <<"X","U","A">>, <<"X","X","X">>,
    <<"Y","E","R">>, <<"Z","A","R">>, <<"Z","M","W">>, <<"Z","W","L">>
  >>

DefaultsLiteral ==
  [k \in {"account-journal-include-children", "currency-column",
          "collapse-pattern", "conversion-currencies", "auto-reload",
          "default-file", "fiscal-year-end", "import-config", "import-dirs",
          "insert-entry", "interval", "journal-show", "journal-show-document",
          "journal-show-transaction", "language", "locale",
          "show-accounts-with-zero-balance",
          "show-accounts-with-zero-transactions", "show-closed-accounts",
          "sidebar-show-queries", "unrealized", "upcoming-events",
          "uptodate-indicator-grey-lookback-days", "use-external-editor"} |->
     CASE k = "account-journal-include-children" -> PyBool(TRUE)
       [] k = "currency-column" -> PyInt(61)
       [] k = "collapse-pattern" -> PyList(<<>>)
       [] k = "conversion-currencies" -> PyList(ConversionCurrencies)
       [] k = "auto-reload" -> PyBool(FALSE)
       [] k = "default-file" -> PyNone
       [] k = "fiscal-year-end" -> PyStr(<<"1","2","-","3","1">>)
       [] k = "import-config" -> PyNone
       [] k = "import-dirs" -> PyList(<<>>)
       [] k = "insert-entry" -> PyList(<<>>)
       [] k = "interval" -> PyStr(<<"m","o","n","t","h">>)
       [] k = "journal-show" -> PyList(
           <<<<"t","r","a","n","s","a","c","t","i","o","n">>, <<"b","a","l","a","n","c","e">>, <<"n","o","t","e">>, <<"d","o","c","u","m","e","n","t">>, <<"c","u","s","t","o","m">>, <<"b","u","d","g","e","t">>, <<"q","u","e","r","y">>>>)
       [] k = "journal-show-document" -> PyList(<<<<"d","i","s","c","o","v","e","r","e","d">>, <<"s","t","a","t","e","m","e","n","t">>>>)
       [] k = "journal-show-transaction" -> PyList(<<<<"c","l","e","a","r","e","d">>, <<"p","e","n","d","i","n","g">>>>)
       [] k = "language" -> PyNone
       [] k = "locale" -> PyNone
       [] k = "show-accounts-with-zero-balance" -> PyBool(TRUE)
       [] k = "show-accounts-with-zero-transactions" -> PyBool(TRUE)
       [] k = "show-closed-accounts" -> PyBool(FALSE)
       [] k = "sidebar-show-queries" -> PyInt(5)
       [] k = "unrealized" -> PyStr(<<"U","n","r","e","a","l","i","z","e","d">>)
       [] k = "upcoming-events" -> PyInt(7)
       [] k = "uptodate-indicator-grey-lookback-days" -> PyInt(60)
       [] k = "use-external-editor" -> PyBool(FALSE)]

BOOL_OPTS ==
  {"account-journal-include-children", "auto-reload",
   "show-accounts-with-zero-balance", "show-accounts-with-zero-transactions",
   "show-closed-accounts", "use-external-editor"}

INT_OPTS ==
  {"currency-column", "sidebar-show-queries", "upcoming-events",
   "uptodate-indicator-grey-lookback-days"}

LIST_OPTS ==
  {"conversion-currencies", "import-dirs", "journal-show",
   "journal-show-document", "journal-show-transaction"}

STR_OPTS ==
  {"collapse-pattern", "fiscal-year-end", "import-config", "interval",
   "language", "locale", "unrealized"}

\* the bug: 'conversion-currencies' listed among the repeatable options
MULTI_OPTS_WithCurrencies == {"collapse-pattern", "conversion-currencies"}

MULTI_OPTS == {"collapse-pattern"}

(***************************************************************************)
(* The str methods and builtins parse_options calls, on character          *)
(* sequences                                                               *)
(***************************************************************************)
UpperCase ==
  <<"A","B","C","D","E","F","G","H","I","J","K","L","M",
    "N","O","P","Q","R","S","T","U","V","W","X","Y","Z">>

LowerCase ==
  <<"a","b","c","d","e","f","g","h","i","j","k","l","m",
    "n","o","p","q","r","s","t","u","v","w","x","y","z">>

LowerChar(c) ==
  IF \E i \in DOMAIN UpperCase : UpperCase[i] = c
    THEN LowerCase[CHOOSE i \in DOMAIN UpperCase : UpperCase[i] = c]
    ELSE c

\* the bug: the comparison with "true" made without lower()
Lower_Missing(s) == s

\* str.lower()
Lower(s) == [i \in DOMAIN s |-> LowerChar(s[i])]

Whitespace == {" ", "\t", "\n"}

RECURSIVE LStrip(_)
LStrip(s) ==
  IF s # <<>> /\ Head(s) \in Whitespace THEN LStrip(Tail(s)) ELSE s

RECURSIVE RStrip(_)
RStrip(s) ==
  IF s # <<>> /\ s[Len(s)] \in Whitespace
    THEN RStrip(SubSeq(s, 1, Len(s) - 1))
    ELSE s

\* str.strip()
Strip(s) == RStrip(LStrip(s))

\* str.split(" "): one piece per single space, empty pieces kept
RECURSIVE SplitSpace(_)
SplitSpace(s) ==
  IF \E i \in DOMAIN s : s[i] = " "
    THEN LET i == CHOOSE j \in DOMAIN s :
                    s[j] = " " /\ \A m \in 1..(j - 1) : s[m] # " "
         IN  <<SubSeq(s, 1, i - 1)>> \o SplitSpace(SubSeq(s, i + 1, Len(s)))
    ELSE <<s>>

Digits == <<"0","1","2","3","4","5","6","7","8","9">>

IsDigit(c) == \E i \in DOMAIN Digits : Digits[i] = c

DigitVal(c) == (CHOOSE i \in DOMAIN Digits : Digits[i] = c) - 1

RECURSIVE DigitsVal(_)
DigitsVal(s) ==
  IF s = <<>> THEN 0
  ELSE IF s[Len(s)] = "_" THEN DigitsVal(SubSeq(s, 1, Len(s) - 1))
  ELSE 10 * DigitsVal(SubSeq(s, 1, Len(s) - 1)) + DigitVal(s[Len(s)])

\* int(s) for a str: surrounding whitespace, an optional sign, decimal digits
\* with single underscores between them; anything else is a ValueError
IntOf(s) ==
  LET body == Strip(s)
      signed == body # <<>> /\ Head(body) \in {"+", "-"}
      digs == IF signed THEN Tail(body) ELSE body
      wellformed ==
        /\ digs # <<>>
        /\ \A i \in DOMAIN digs : IsDigit(digs[i]) \/ digs[i] = "_"
        /\ IsDigit(digs[1]) /\ IsDigit(digs[Len(digs)])
        /\ \A i \in 1..(Len(digs) - 1) : ~(digs[i] = "_" /\ digs[i + 1] = "_")
  IN  IF ~wellformed THEN [exc |-> "ValueError", v |-> 0]
      ELSE [exc |-> "none",
            v |-> IF signed /\ Head(body) = "-"
                    THEN 0 - DigitsVal(digs) ELSE DigitsVal(digs)]

RECURSIVE ParenDepth(_, _)
ParenDepth(s, d) ==
  IF s = <<>> THEN d
  ELSE IF Head(s) = "(" THEN ParenDepth(Tail(s), d + 1)
  ELSE IF Head(s) = ")"
    THEN (IF d = 0 THEN 0 - 1 ELSE ParenDepth(Tail(s), d - 1))
  ELSE ParenDepth(Tail(s), d)

\* re.compile(s): letters, digits, blanks and "-" are literals and "(" ")"
\* group; the pattern compiles exactly when its parentheses balance, and
\* re.error is raised otherwise.  A non-str argument is a TypeError.
ReCompile(val) ==
  IF val.t # "str" THEN [exc |-> "TypeError", v |-> <<>>]
  ELSE IF ParenDepth(val.v, 0) # 0 THEN [exc |-> "re.error", v |-> <<>>]
  ELSE [exc |-> "none", v |-> [pattern |-> val.v]]

(***************************************************************************)
(* The named tuples                                                        *)
(***************************************************************************)
OptionError(source, message, entry) ==
  [source |-> source, message |-> message, entry |-> entry]

InsertEntryOption(date, re, filename, lineno) ==
  [date |-> date, re |-> re, filename |-> filename, lineno |-> lineno]

(***************************************************************************)
(* The body of the try statement of parse_options, for one entry.  Its     *)
(* result is the writes it made to options, in order, and the exception    *)
(* that ended it ("none" when it ran to its end).                          *)
(***************************************************************************)
SetItem(key, val) == [op |-> "set", key |-> key, val |-> val]

AppendTo(key, item) == [op |-> "append", key |-> key, val |-> item]

\* processed_value: None for a key of no type list
Coerce(key, value) ==
  IF key \in STR_OPTS THEN [exc |-> "none", pv |-> value]
  ELSE IF key \in BOOL_OPTS
    THEN [exc |-> "none",
          pv |-> PyBool(Lower(value.v) = <<"t","r","u","e">>)]
  ELSE IF key \in INT_OPTS
    THEN LET n == IntOf(value.v)
         IN  [exc |-> n.exc, pv |-> PyInt(n.v)]
  ELSE IF key \in LIST_OPTS
    THEN [exc |-> "none", pv |-> PyList(SplitSpace(Strip(value.v)))]
  ELSE [exc |-> "none", pv |-> PyNone]

\* the bug: "if processed_value:" for "if processed_value is not None:"
Accumulate_Truthy(key, processed_value) ==
  IF /\ processed_value.t # "None"
     /\ ~(processed_value.t = "bool" /\ processed_value.v = FALSE)
     /\ ~(processed_value.t = "int" /\ processed_value.v = 0)
     /\ ~(processed_value.t \in {"str", "list"} /\ processed_value.v = <<>>)
    THEN IF key \in MULTI_OPTS
           THEN <<AppendTo(key, processed_value.v)>>
           ELSE <<SetItem(key, processed_value)>>
    ELSE <<>>

\* the bug: a repeatable key is bound to a new one-element list
Accumulate_Rebinds(key, processed_value) ==
  IF processed_value.t # "None"
    THEN IF key \in MULTI_OPTS
           THEN <<SetItem(key, PyList(<<processed_value.v>>))>>
           ELSE <<SetItem(key, processed_value)>>
    ELSE <<>>

\* a str element of a list is held as its character sequence
Accumulate(key, processed_value) ==
  IF processed_value.t # "None"
    THEN IF key \in MULTI_OPTS
           THEN <<AppendTo(key, processed_value.v)>>
           ELSE <<SetItem(key, processed_value)>>
    ELSE <<>>

\* the if/elif/else on the key; value stays unbound on the first two
\* branches, whose keys are in no type list
KeyBranch(entry, key) ==
  IF key = "default-file"
    THEN [exc |-> "none", value |-> PyNone,
          writes |-> <<SetItem(key, PyStr(entry.meta.filename))>>]
  ELSE IF key = "insert-entry"
    THEN IF Len(entry.values) < 2
           THEN [exc |-> "IndexError", value |-> PyNone, writes |-> <<>>]
           ELSE LET re == ReCompile(entry.values[2])
                IN  IF re.exc # "none"
                      THEN [exc |-> re.exc, value |-> PyNone, writes |-> <<>>]
                      ELSE [exc |-> "none", value |-> PyNone,
                            writes |->
                              <<AppendTo(key,
                                  InsertEntryOption(entry.date, re.v,
                                    entry.meta.filename, entry.meta.lineno))>>]
  ELSE IF Len(entry.values) < 2
    THEN [exc |-> "IndexError", value |-> PyNone, writes |-> <<>>]
  ELSE IF entry.values[2].t # "str"
    THEN [exc |-> "AssertionError", value |-> PyNone, writes |-> <<>>]
  ELSE [exc |-> "none", value |-> entry.values[2], writes |-> <<>>]

\* the bug: the assertion that the key is one of DEFAULTS left out
TryBody_NoKeyAssert(entry, keys) ==
  IF Len(entry.values) < 1
    THEN [exc |-> "IndexError", writes |-> <<>>]
  ELSE LET key == entry.values[1].v
           br == KeyBranch(entry, key)
       IN  IF br.exc # "none"
             THEN [exc |-> br.exc, writes |-> br.writes]
             ELSE LET co == Coerce(key, br.value)
                  IN  IF co.exc # "none"
                        THEN [exc |-> co.exc, writes |-> br.writes]
                        ELSE [exc |-> "none",
                              writes |-> br.writes \o Accumulate(key, co.pv)]

TryBody(entry, keys) ==
  IF Len(entry.values) < 1
    THEN [exc |-> "IndexError", writes |-> <<>>]
  ELSE IF ~(entry.values[1].t = "str" /\ entry.values[1].v \in keys)
    THEN [exc |-> "AssertionError", writes |-> <<>>]
  ELSE LET key == entry.values[1].v
           br == KeyBranch(entry, key)
       IN  IF br.exc # "none"
             THEN [exc |-> br.exc, writes |-> br.writes]
             ELSE LET co == Coerce(key, br.value)
                  IN  IF co.exc # "none"
                        THEN [exc |-> co.exc, writes |-> br.writes]
                        ELSE [exc |-> "none",
                              writes |-> br.writes \o Accumulate(key, co.pv)]

\* the exception classes of the except clause
Caught == {"IndexError", "TypeError", "AssertionError"}

FailedMessage == "Failed to parse fava-option entry"

(***************************************************************************)
(* Objects: a dict value is immutable or a reference to a list on the heap *)
(***************************************************************************)
Runs == {"run1", "run2"}

ListKeys == {k \in DOMAIN DefaultsLiteral : DefaultsLiteral[k].t = "list"}

Addr(owner, key) == <<owner, key>>

Addrs == ({"DEFAULTS"} \cup Runs) \X ListKeys

\* what a dict holds, lists read through the heap (the == of Python)
Deref(d, h) ==
  [k \in DOMAIN d |-> IF d[k].t = "ref" THEN PyList(h[d[k].v]) ELSE d[k]]

\* the bug: copy.copy(d), a new dict that holds the same list objects
ShallowCopy(d, h, r) == [dict |-> d, heap |-> h]

\* copy.deepcopy(d) by run r: every list is copied to an object of its own
DeepCopy(d, h, r) ==
  [dict |-> [k \in DOMAIN d |->
               IF d[k].t = "ref" THEN PyRef(Addr(r, k)) ELSE d[k]],
   heap |-> [a \in Addrs |->
               IF a[1] = r
                 THEN (IF d[a[2]].t = "ref" THEN h[d[a[2]].v] ELSE <<>>)
                 ELSE h[a]]]

\* options[key] = val, or options[key].append(val), by run r
Write(st, r, w) ==
  IF w.op = "append"
    THEN [dict |-> st.dict,
          heap |-> [st.heap EXCEPT ![st.dict[w.key].v] = Append(@, w.val)]]
  ELSE IF w.val.t = "list"
    THEN [dict |-> [st.dict EXCEPT ![w.key] = PyRef(Addr(r, w.key))],
          heap |-> [st.heap EXCEPT ![Addr(r, w.key)] = w.val.v]]
  ELSE [dict |-> [st.dict EXCEPT ![w.key] = w.val], heap |-> st.heap]

RECURSIVE Writes(_, _, _)
Writes(st, r, ws) ==
  IF ws = <<>> THEN st ELSE Writes(Write(st, r, Head(ws)), r, Tail(ws))

(***************************************************************************)
(* The inputs: Custom entries                                              *)
(***************************************************************************)
MaxEntries == 3

MaxRunEntries == 2

Filename == <<"m","a","i","n",".","b","c">>

Date == "2016-04-01"

\* a value of a Custom entry that is no str (a bool of the ledger)
NonStr == [t |-> "bool", v |-> <<"T","R","U","E">>]

Key(k) == [t |-> "str", v |-> k]

Entry(type, values, lineno) ==
  [type |-> type, date |-> Date, values |-> values,
   meta |-> [filename |-> Filename, lineno |-> lineno]]

\* the second values tried on a key, by the type list of the key
Strings(k) ==
  IF k \in BOOL_OPTS
    THEN { <<"t","r","u","e">>, <<"T","r","u","e">>, <<"T","R","U","E">>,
           <<"f","a","l","s","e">>, <<"y","e","s">>, <<>> }
  ELSE IF k \in INT_OPTS
    THEN { <<"1","2">>, <<" ","-","7">>, <<"a","b","c">>, <<>> }
  ELSE IF k \in LIST_OPTS
    THEN { <<" ","a"," "," ","b">>, <<"U","S","D"," ","E","U","R">>, <<>> }
  ELSE IF k = "insert-entry"
    THEN { <<"(","a",")"," ","b">>, <<"(">>, <<"a",")">> }
  ELSE { <<"1","2">>, <<" ","a"," "," ","b">>, <<>> }

\* a value that changes the option when applied to its default
Probe(k) ==
  IF DefaultsLiteral[k] = PyBool(FALSE)
    THEN <<"t","r","u","e">> ELSE <<"1","2">>

\* What a behaviour draws its entries from: the runs that call, the key in
\* focus, the length of a list, the values of the "fava-option" entries and
\* the values of the Custom entries of another type.
SeqProfiles ==
  {[threads |-> {"run1"}, focus |-> k, len |-> MaxEntries,
    values |-> {<<>>, <<Key(k)>>, <<Key(k), NonStr>>,
                <<Key("not-a-real-option"), PyStr(Probe(k))>>}
               \cup {<<Key(k), PyStr(s)>> : s \in Strings(k)},
    others |-> {<<Key(k), PyStr(Probe(k))>>}] :
     k \in DOMAIN DefaultsLiteral}

RunFocus ==
  {"collapse-pattern", "insert-entry", "conversion-currencies", "default-file"}

RunProfiles ==
  {[threads |-> Runs, focus |-> k, len |-> MaxRunEntries,
    values |-> {<<Key(k)>>, <<Key(k), PyStr(<<"a"," ","b">>)>>,
                <<Key(k), PyStr(<<"(">>)>>},
    others |-> {}] : k \in RunFocus}

\* the entries a run may meet at position i of its list
Pool(prof, i) ==
  {Entry("fava-option", vs, i) : vs \in prof.values}
    \cup {Entry("budget", vs, i) : vs \in prof.others}

(***************************************************************************)
(* The program: the module is loaded, then parse_options is called by the  *)
(* runs, one loop iteration at a time                                      *)
(***************************************************************************)
Load ==
  /\ DEFAULTS = [k \in DOMAIN DefaultsLiteral |->
                   IF DefaultsLiteral[k].t = "list"
                     THEN PyRef(Addr("DEFAULTS", k)) ELSE DefaultsLiteral[k]]
  /\ heap = [a \in Addrs |->
               IF a[1] = "DEFAULTS" THEN DefaultsLiteral[a[2]].v ELSE <<>>]
  /\ pc = [r \in Runs |-> "idle"]
  /\ options = [r \in Runs |-> <<>>]
  /\ errors = [r \in Runs |-> <<>>]
  /\ custom_entries = [r \in Runs |-> <<>>]
  /\ raised = [r \in Runs |-> "none"]

Init == Load /\ profile \in SeqProfiles

InitRuns == Load /\ profile \in RunProfiles

\* options = copy.deepcopy(DEFAULTS); errors = []
Call(r) ==
  /\ r \in profile.threads
  /\ pc[r] \in {"idle", "returned", "raised"}
  /\ LET cp == DeepCopy(DEFAULTS, heap, r)
     IN  /\ options' = [options EXCEPT ![r] = cp.dict]
         /\ heap' = cp.heap
  /\ errors' = [errors EXCEPT ![r] = <<>>]
  /\ custom_entries' = [custom_entries EXCEPT ![r] = <<>>]
  /\ raised' = [raised EXCEPT ![r] = "none"]
  /\ pc' = [pc EXCEPT ![r] = "loop"]
  /\ UNCHANGED <<DEFAULTS, profile>>

\* one iteration of the for loop, on the next entry of the list
ProcessEntry(r) ==
  /\ pc[r] = "loop"
  /\ Len(custom_entries[r]) < profile.len
  /\ \E entry \in Pool(profile, Len(custom_entries[r]) + 1) :
       /\ custom_entries' = [custom_entries EXCEPT ![r] = Append(@, entry)]
       /\ IF entry.type = "fava-option"
            THEN LET out == TryBody(entry, DOMAIN DEFAULTS)
                     st == Writes([dict |-> options[r], heap |-> heap],
                                  r, out.writes)
                 IN  /\ options' = [options EXCEPT ![r] = st.dict]
                     /\ heap' = st.heap
                     /\ errors' =
                          IF out.exc \in Caught
                            THEN [errors EXCEPT ![r] =
                                    Append(@, OptionError(entry.meta,
                                                FailedMessage, entry))]
                            ELSE errors
                     /\ IF out.exc \in Caught \cup {"none"}
                          THEN UNCHANGED <<pc, raised>>
                          ELSE /\ pc' = [pc EXCEPT ![r] = "raised"]
                               /\ raised' = [raised EXCEPT ![r] = out.exc]
            ELSE UNCHANGED <<options, heap, errors, pc, raised>>
  /\ UNCHANGED <<DEFAULTS, profile>>

\* the list is exhausted: return options, errors
Return(r) ==
  /\ pc[r] = "loop"
  /\ pc' = [pc EXCEPT ![r] = "returned"]
  /\ UNCHANGED <<DEFAULTS, heap, options, errors, custom_entries, raised,
                 profile>>

Next == \E r \in Runs : Call(r) \/ ProcessEntry(r) \/ Return(r)

Spec == Init /\ [][Next]_vars

SpecRuns == InitRuns /\ [][Next]_vars

(***************************************************************************)
(* What the properties speak of                                            *)
(***************************************************************************)
Live == {r \in Runs : pc[r] # "idle"}

\* the options of run r as Python compares them
Val(r) == Deref(options[r], heap)

Keys == DOMAIN DefaultsLiteral

Last(s) == s[Len(s)]

Front(s) == SubSeq(s, 1, Len(s) - 1)

IsDirective(e) == e.type = "fava-option"

\* the exception that ends the processing of directive e ("none": accepted)
Exc(e) == TryBody(e, Keys).exc

\* e is a directive for key k that carries a str as its second value
HasStrFor(e, k) ==
  /\ IsDirective(e)
  /\ Len(e.values) >= 2
  /\ e.values[1] = Key(k)
  /\ e.values[2].t = "str"

\* a mapping of values after one write
WriteValue(d, w) ==
  IF w.op = "append"
    THEN [d EXCEPT ![w.key] = PyList(Append(@.v, w.val))]
    ELSE [d EXCEPT ![w.key] = w.val]

RECURSIVE WriteValues(_, _)
WriteValues(d, ws) ==
  IF ws = <<>> THEN d ELSE WriteValues(WriteValue(d, Head(ws)), Tail(ws))

\* the mapping that the directives of es, applied in order to the defaults
\* as first loaded, give
RECURSIVE Resolve(_)
Resolve(es) ==
  IF es = <<>> THEN DefaultsLiteral
  ELSE IF IsDirective(Last(es))
    THEN WriteValues(Resolve(Front(es)), TryBody(Last(es), Keys).writes)
    ELSE Resolve(Front(es))

\* the entries of the errors of run r
Recorded(r) == {errors[r][i].entry : i \in DOMAIN errors[r]}

NotRecorded(r, e) == e \notin Recorded(r)

Accepted(e) == IsDirective(e) /\ Exc(e) = "none"

(***************************************************************************)
(* C1.  An integer key given a str with no digit in it ("abc"): the claim  *)
(* is that parse_options goes on normally, adds exactly one OptionError    *)
(* for that directive, and the key keeps the value it had before it.       *)
(***************************************************************************)
NoDigit(s) == \A i \in DOMAIN s : ~IsDigit(s[i])

C1_NonNumericIntRecorded ==
  \A r \in Live : \A k \in INT_OPTS :
    (custom_entries[r] # <<>>
       /\ HasStrFor(Last(custom_entries[r]), k)
       /\ NoDigit(Last(custom_entries[r]).values[2].v))
    => LET e == Last(custom_entries[r])
       IN  /\ pc[r] # "raised"
           /\ errors[r] # <<>>
           /\ Last(errors[r]) = OptionError(e.meta, FailedMessage, e)
           /\ \A i \in 1..(Len(errors[r]) - 1) : errors[r][i].entry # e
           /\ Val(r)[k] = Resolve(Front(custom_entries[r]))[k]

(***************************************************************************)
(* C2.  An 'insert-entry' directive whose second value is no valid regular *)
(* expression (its parentheses do not pair up): the claim is that          *)
(* parse_options goes on normally, adds exactly one OptionError for that   *)
(* directive, and the directive appends no record to the list.             *)
(***************************************************************************)
Count(s, c) == Cardinality({i \in DOMAIN s : s[i] = c})

C2_InvalidRegexRecorded ==
  \A r \in Live :
    (custom_entries[r] # <<>>
       /\ HasStrFor(Last(custom_entries[r]), "insert-entry")
       /\ Count(Last(custom_entries[r]).values[2].v, "(")
            # Count(Last(custom_entries[r]).values[2].v, ")"))
    => LET e == Last(custom_entries[r])
       IN  /\ pc[r] # "raised"
           /\ errors[r] # <<>>
           /\ Last(errors[r]) = OptionError(e.meta, FailedMessage, e)
           /\ \A i \in 1..(Len(errors[r]) - 1) : errors[r][i].entry # e
           /\ Val(r)["insert-entry"]
                = Resolve(Front(custom_entries[r]))["insert-entry"]

(***************************************************************************)
(* C3.  Every directive recorded as an OptionError, and every directive    *)
(* whose key is not in DEFAULTS is one, has exactly one OptionError, whose *)
(* source is the directive's metadata and whose message is "Failed to      *)
(* parse fava-option entry"; and the options are those that the list with  *)
(* the recorded directives left out gives: a recorded directive changes    *)
(* nothing, and the directives before and after it apply as if it were     *)
(* absent.                                                                 *)
(***************************************************************************)
UnknownKey(e) ==
  /\ IsDirective(e)
  /\ Len(e.values) >= 1
  /\ ~(e.values[1].t = "str" /\ e.values[1].v \in Keys)

C3_RecordedDirectiveIsolated ==
  \A r \in Live :
    /\ \A i \in DOMAIN custom_entries[r] :
         UnknownKey(custom_entries[r][i])
           => custom_entries[r][i] \in Recorded(r)
    /\ \A i \in DOMAIN errors[r] :
         /\ errors[r][i].source = errors[r][i].entry.meta
         /\ errors[r][i].message = "Failed to parse fava-option entry"
         /\ \E j \in DOMAIN custom_entries[r] :
              /\ custom_entries[r][j] = errors[r][i].entry
              /\ IsDirective(custom_entries[r][j])
         /\ \A j \in DOMAIN errors[r] :
              errors[r][j].entry = errors[r][i].entry => j = i
    /\ Val(r) = Resolve(SelectSeq(custom_entries[r],
                                  LAMBDA e : NotRecorded(r, e)))

\* a directive for an unknown key was recorded between two directives that
\* changed the options, and the run returned
C3_Witness ==
  \E r \in Live :
    /\ pc[r] = "returned"
    /\ Len(custom_entries[r]) = 3
    /\ Len(errors[r]) = 1
    /\ UnknownKey(custom_entries[r][2])
    /\ Accepted(custom_entries[r][1])
    /\ Accepted(custom_entries[r][3])
    /\ Resolve(<<custom_entries[r][1]>>) # DefaultsLiteral
    /\ Val(r) # Resolve(<<custom_entries[r][1]>>)

(***************************************************************************)
(* C4.  Whatever the runs of parse_options do, one after another or        *)
(* interleaved, the module-level DEFAULTS stays deep-equal to the table as *)
(* first loaded, and what a run holds is a function of its own list of     *)
(* entries alone.                                                          *)
(***************************************************************************)
RECURSIVE ErrorsOf(_)
ErrorsOf(es) ==
  IF es = <<>> THEN <<>>
  ELSE IF IsDirective(Last(es)) /\ Exc(Last(es)) \in Caught
    THEN Append(ErrorsOf(Front(es)),
                OptionError(Last(es).meta, FailedMessage, Last(es)))
    ELSE ErrorsOf(Front(es))

C4_DefaultsPristine ==
  /\ Deref(DEFAULTS, heap) = DefaultsLiteral
  /\ \A r \in Live :
       /\ Val(r) = Resolve(custom_entries[r])
       /\ errors[r] = ErrorsOf(custom_entries[r])

\* two runs are in their loops at once, each having appended to its list
C4_Witness ==
  /\ pc["run1"] = "loop" /\ pc["run2"] = "loop"
  /\ \E k \in {"collapse-pattern", "insert-entry"} :
       /\ Len(Val("run1")[k].v) = 2
       /\ Len(Val("run2")[k].v) = 1

(***************************************************************************)
(* C5.  A key that is not repeatable (a key of a type list that is not in  *)
(* MULTI_OPTS), given two or more valid directives: its value is the       *)
(* coercion of the value of the last of them in input order.               *)
(***************************************************************************)
GenericKeys == BOOL_OPTS \cup INT_OPTS \cup LIST_OPTS \cup STR_OPTS

ValidFor(e, k) == HasStrFor(e, k) /\ Coerce(k, e.values[2]).exc = "none"

ValidAt(r, k) ==
  {i \in DOMAIN custom_entries[r] : ValidFor(custom_entries[r][i], k)}

LastOf(S) == CHOOSE i \in S : \A j \in S : j <= i

C5_LastDirectiveWins ==
  \A r \in Live : \A k \in GenericKeys \ MULTI_OPTS :
    Cardinality(ValidAt(r, k)) >= 2
      => Val(r)[k]
           = Coerce(k, custom_entries[r][LastOf(ValidAt(r, k))].values[2]).pv

\* a run returned after two valid directives for a key whose coercions
\* differ, the second of which is not the default either
C5_Witness ==
  \E r \in Live : \E k \in GenericKeys \ MULTI_OPTS :
    /\ pc[r] = "returned"
    /\ Len(custom_entries[r]) = 2
    /\ ValidAt(r, k) = {1, 2}
    /\ Coerce(k, custom_entries[r][1].values[2]).pv
         # Coerce(k, custom_entries[r][2].values[2]).pv
    /\ Val(r)[k] # DefaultsLiteral[k]
    /\ Val(r)[k] # Coerce(k, custom_entries[r][1].values[2]).pv

(***************************************************************************)
(* C6.  A repeatable key (a key of MULTI_OPTS), given N valid directives:  *)
(* its list is the default list followed by the N values, in input order,  *)
(* none dropped, duplicated or moved.                                      *)
(***************************************************************************)
RECURSIVE ValuesFor(_, _)
ValuesFor(es, k) ==
  IF es = <<>> THEN <<>>
  ELSE IF ValidFor(Last(es), k)
    THEN Append(ValuesFor(Front(es), k), Last(es).values[2].v)
    ELSE ValuesFor(Front(es), k)

C6_RepeatableAccumulates ==
  \A r \in Live : \A k \in MULTI_OPTS :
    Val(r)[k] = PyList(DefaultsLiteral[k].v \o ValuesFor(custom_entries[r], k))

\* three valid directives for 'collapse-pattern', the first and the last
\* with different values, and the run returned
C6_Witness ==
  \E r \in Live :
    /\ pc[r] = "returned"
    /\ ValidAt(r, "collapse-pattern") = {1, 2, 3}
    /\ Len(Val(r)["collapse-pattern"].v) = 3
    /\ Val(r)["collapse-pattern"].v[1] # Val(r)["collapse-pattern"].v[3]

(***************************************************************************)
(* C7.  The options have exactly the keys of DEFAULTS, and a key that is   *)
(* the key of no entry of the list has its default value; the empty list   *)
(* gives the defaults and no error.                                        *)
(***************************************************************************)
Mentioned(r) ==
  {k \in Keys : \E i \in DOMAIN custom_entries[r] :
     /\ Len(custom_entries[r][i].values) >= 1
     /\ custom_entries[r][i].values[1] = Key(k)}

C7_UnmentionedKeysKeepDefaults ==
  \A r \in Live :
    /\ DOMAIN options[r] = Keys
    /\ \A k \in Keys \ Mentioned(r) : Val(r)[k] = DefaultsLiteral[k]
    /\ custom_entries[r] = <<>>
         => Val(r) = DefaultsLiteral /\ errors[r] = <<>>

\* a returned run whose list names the key in focus alone, changed its value
\* and recorded an error
C7_Witness ==
  \E r \in Live :
    /\ pc[r] = "returned"
    /\ Mentioned(r) = {profile.focus}
    /\ Val(r)[profile.focus] # DefaultsLiteral[profile.focus]
    /\ errors[r] # <<>>

(***************************************************************************)
(* C8.  A boolean key given any str: the directive is accepted, with no    *)
(* OptionError, and the key is true exactly when the str is "true" in any  *)
(* letter case, false for every other str, whatever the key's default.     *)
(***************************************************************************)
IsTrueToken(s) ==
  /\ Len(s) = 4
  /\ s[1] \in {"t", "T"} /\ s[2] \in {"r", "R"}
  /\ s[3] \in {"u", "U"} /\ s[4] \in {"e", "E"}

C8_BoolLenient ==
  \A r \in Live : \A k \in BOOL_OPTS :
    (custom_entries[r] # <<>> /\ HasStrFor(Last(custom_entries[r]), k))
    => /\ pc[r] # "raised"
       /\ Last(custom_entries[r]) \notin Recorded(r)
       /\ Val(r)[k] = PyBool(IsTrueToken(Last(custom_entries[r]).values[2].v))

\* a key whose default is true was set to false by "yes" after "TRUE"
C8_Witness ==
  \E r \in Live :
    /\ pc[r] = "returned"
    /\ Len(custom_entries[r]) = 2
    /\ HasStrFor(custom_entries[r][1], "show-accounts-with-zero-balance")
    /\ custom_entries[r][1].values[2].v = <<"T","R","U","E">>
    /\ HasStrFor(custom_entries[r][2], "show-accounts-with-zero-balance")
    /\ custom_entries[r][2].values[2].v = <<"y","e","s">>
    /\ Val(r)["show-accounts-with-zero-balance"] = PyBool(FALSE)

(***************************************************************************)
(* C9.  The error list holds exactly one OptionError for every             *)
(* 'fava-option' directive that fails validation or coercion and none for  *)
(* any other entry, in the order of the directives in the input; an entry  *)
(* of another type adds no error and changes no option.                    *)
(***************************************************************************)
RECURSIVE FailuresOf(_)
FailuresOf(es) ==
  IF es = <<>> THEN <<>>
  ELSE IF IsDirective(Last(es)) /\ Exc(Last(es)) # "none"
    THEN Append(FailuresOf(Front(es)),
                OptionError(Last(es).meta, FailedMessage, Last(es)))
    ELSE FailuresOf(Front(es))

C9_OneErrorPerFailedDirective ==
  \A r \in Live :
    /\ pc[r] # "raised"
    /\ errors[r] = FailuresOf(custom_entries[r])
    /\ Val(r) = Resolve(SelectSeq(custom_entries[r], IsDirective))

(***************************************************************************)
(* C10.  As claimed: a valid directive for 'conversion-currencies' appends *)
(* to the list at that key, which starts as the non-empty default list:    *)
(* the list before the directive is kept and the list grows.               *)
(***************************************************************************)
CC == "conversion-currencies"

C10_CurrenciesAppended ==
  /\ DefaultsLiteral[CC].v # <<>>
  /\ \A r \in Live :
       (custom_entries[r] # <<>> /\ ValidFor(Last(custom_entries[r]), CC))
       => LET old == Resolve(Front(custom_entries[r]))[CC].v
              new == Val(r)[CC].v
          IN  /\ Len(new) > Len(old)
              /\ SubSeq(new, 1, Len(old)) = old

(***************************************************************************)
(* C10, amended.  'conversion-currencies' is not repeatable: its list      *)
(* starts as the non-empty default list, and a valid directive for it is   *)
(* accepted and replaces the list by its coerced value, the pieces of the  *)
(* stripped value between single spaces.                                   *)
(***************************************************************************)
RECURSIVE JoinSpace(_)
JoinSpace(l) ==
  IF Len(l) = 1 THEN l[1] ELSE JoinSpace(Front(l)) \o <<" ">> \o Last(l)

C10_CurrenciesReplaced ==
  /\ DefaultsLiteral[CC].v # <<>>
  /\ \A r \in Live :
       /\ ValidAt(r, CC) = {} => Val(r)[CC] = DefaultsLiteral[CC]
       /\ (custom_entries[r] # <<>> /\ ValidFor(Last(custom_entries[r]), CC))
          => LET e == Last(custom_entries[r])
                 new == Val(r)[CC].v
             IN  /\ pc[r] # "raised"
                 /\ e \notin Recorded(r)
                 /\ Val(r)[CC] = Coerce(CC, e.values[2]).pv
                 /\ new # <<>>
                 /\ \A i \in DOMAIN new : Count(new[i], " ") = 0
                 /\ JoinSpace(new) = Strip(e.values[2].v)

\* "USD EUR" after another valid directive left the list <<"USD", "EUR">>
C10_Witness ==
  \E r \in Live :
    /\ pc[r] = "returned"
    /\ ValidAt(r, CC) = {1, 2}
    /\ custom_entries[r][1].values[2].v = <<" ","a"," "," ","b">>
    /\ Val(r)[CC].v = << <<"U","S","D">>, <<"E","U","R">> >>

=============================================================================
